---- MODULE Spec2Model ----
(***************************************************************************)
(* MouseMonitor (src/mma.py): the idle monitor, the listener callbacks,    *)
(* the simulation driver and the motion engine, as one state machine.      *)
(* Time is counted in whole seconds.  Every thread is a program counter    *)
(* plus its locals; a step is one lock-free read or write, or one          *)
(* critical section of self.lock.                                          *)
(***************************************************************************)
EXTENDS Integers, Sequences, FiniteSets, TLC

\* ----------------------------------------------------------------- bounds
MaxTime == 12
MaxDrivers == 2
MaxEvents == 1

\* ------------------------------------------------------ program constants
check_interval == 5
idle_threshold == 5
auto_move_interval == 5
EchoWindow == 1
EchoRadiusSq == 100

\* Python's None, for the optional fields (positions are pairs <<x, y>>,
\* optional timestamps are <<t>>).
None == <<>>
Some(v) == <<v>>
Val(o) == o[1]

\* The cursor positions a person moves the mouse to, and the displacements
\* the driver draws (distance * (cos, sin) plus the +-5 offset).
HumanPoints == {<<36, 8>>, <<33, 4>>}
Offsets == {<<30, 0>>}

DriverIds == 1..MaxDrivers
Listeners == {"mouse", "kbd"}

VARIABLES
    now,                        \* time.time(), in seconds
    running,                    \* self.running
    is_auto_moving,             \* self.is_auto_moving
    is_auto_move_in_progress,   \* self.is_auto_move_in_progress
    last_activity_time,         \* self.last_activity_time
    last_position,              \* self.last_position
    last_auto_position,         \* self.last_auto_position
    last_auto_move_time,        \* self.last_auto_move_time
    auto_move_thread,           \* self.auto_move_thread: None or <<driver id>>
    lock,                       \* self.lock: "free" or the holder
    cursor,                     \* the cursor position the OS reports
    pendingMove,                \* injected move not yet reported: None or position
    pendingScroll,              \* injected scroll not yet reported
    lpc,                        \* listener threads: program counter
    lloc,                       \* listener threads: locals of the running callback
    mon,                        \* monitor_loop thread: pc, idle_time, wake
    main_pc,                    \* main thread: "wait", "stopping", "stopped"
    drv,                        \* driver threads: pc and locals
    events,                     \* what the environment has done so far: events of
                                \* a person, failed injections, the interrupt
    hist                        \* history of the run, read by the properties only

vars == <<now, running, is_auto_moving, is_auto_move_in_progress,
          last_activity_time, last_position, last_auto_position,
          last_auto_move_time, auto_move_thread, lock, cursor, pendingMove,
          pendingScroll, lpc, lloc, mon, main_pc, drv, events, hist>>

shared == <<running, is_auto_moving, is_auto_move_in_progress,
            last_activity_time, last_position, last_auto_position,
            last_auto_move_time, auto_move_thread>>

\* ------------------------------------------------------------- helpers
NoLocals == [t |-> 0, pos |-> None, dx |-> 0, src |-> "none", kind |-> "none"]

\* sent and acc are read by the properties only: the relative moves the
\* current natural_move call has injected, and the sum of its step_portion
\* values (over steps^3).
DeadDriver == [pc |-> "dead", target |-> None, total |-> None, steps |-> 0,
               i |-> 0, final |-> None, ftime |-> 0, wake |-> 0,
               sent |-> 0, acc |-> 0]

\* hist.last: the callback that returned last in the current second: who
\* caused its event ("human", or "echo" of an injected one) and its result;
\* lastGenuine: when a person last produced an event the callbacks track;
\* simSince: is_auto_moving has been true since then; gapped: idle_threshold
\* has once passed without such an event; spaced, moved: every event of a
\* person so far was a move at least idle_threshold after the one before;
\* injAfterCancel: events injected since is_auto_moving last became false.
NoLast == [src |-> "none", result |-> "none"]

NoHist == [last |-> NoLast, lastGenuine |-> 1, simSince |-> FALSE, gapped |-> FALSE,
           spaced |-> TRUE, moved |-> FALSE, injAfterCancel |-> 0]

\* A float timestamp is false in a boolean test when it is None or 0.0.
Truthy(ot) == ot # None /\ Val(ot) # 0

DistSq(p, q) == (p[1] - q[1]) * (p[1] - q[1]) + (p[2] - q[2]) * (p[2] - q[2])

Alive(d) == drv[d].pc # "dead"

Init ==
    /\ now = 1
    /\ running = TRUE
    /\ is_auto_moving = FALSE
    /\ is_auto_move_in_progress = FALSE
    /\ last_activity_time = 1
    /\ last_position = None
    /\ last_auto_position = None
    /\ last_auto_move_time = None
    /\ auto_move_thread = None
    /\ lock = "free"
    /\ cursor = <<0, 0>>
    /\ pendingMove = None
    /\ pendingScroll = FALSE
    /\ lpc = [l \in Listeners |-> "idle"]
    /\ lloc = [l \in Listeners |-> NoLocals]
    /\ mon = [pc |-> "loop", idle |-> 0, wake |-> 0]
    /\ main_pc = "wait"
    /\ drv = [d \in DriverIds |-> DeadDriver]
    /\ events = 0
    /\ hist = NoHist

\* ------------------------------------------------- listener callbacks
\* The history after a person's event of the given kind is delivered.
Delivered(h, kind, src) ==
    IF src = "human"
    THEN [h EXCEPT !.lastGenuine = now,
                   !.simSince = FALSE,
                   !.spaced = h.spaced /\ kind = "move"
                              /\ now - h.lastGenuine >= idle_threshold,
                   !.moved = h.moved \/ kind = "move"]
    ELSE h

\* The history after a callback returns.  A person's event that is discarded
\* while the simulation runs leaves the simulation running.
Returned(h, src, result) ==
    [h EXCEPT !.last = [src |-> src, result |-> result],
              !.simSince = h.simSince
                  \/ (/\ src = "human"
                      /\ result \in {"in_progress", "near", "error", "ignored"}
                      /\ is_auto_moving
                      /\ \A l \in Listeners : lpc'[l] \in {"idle", "crashed"})]

\* What reaches the listener: a person's event, or the report of an event
\* the driver injected (SendInput events pass through the listener's hook).
MoveEvents ==
    (IF events < MaxEvents
     THEN {[pos |-> p, src |-> "human"] : p \in HumanPoints} ELSE {})
    \cup (IF pendingMove # None
          THEN {[pos |-> pendingMove, src |-> "echo"]} ELSE {})

Consume(e) ==
    IF e.src = "human"
    THEN /\ cursor' = e.pos
         /\ pendingMove' = pendingMove
         /\ events' = events + 1
    ELSE /\ cursor' = cursor
         /\ pendingMove' = None
         /\ events' = events

\* on_move, lines 156-159: the lock-free test of is_auto_move_in_progress,
\* then current_time = time.time().
OnMoveFlag ==
    /\ lpc["mouse"] = "idle"
    /\ main_pc # "stopped"
    /\ \E e \in MoveEvents :
         /\ Consume(e)
         /\ IF is_auto_move_in_progress
            THEN /\ UNCHANGED <<lpc, lloc>>
                 /\ hist' = Returned(Delivered(hist, "move", e.src),
                                     e.src, "in_progress")
            ELSE /\ lpc' = [lpc EXCEPT !["mouse"] = "mv_t1"]
                 /\ lloc' = [lloc EXCEPT !["mouse"] =
                        [NoLocals EXCEPT !.pos = e.pos, !.src = e.src,
                                         !.kind = "move", !.t = now]]
                 /\ hist' = Delivered(hist, "move", e.src)
    /\ UNCHANGED <<now, shared, lock, pendingScroll, mon, main_pc, drv>>

\* The callback's exit without a write: back to idle, locals dropped.
Discard(result) ==
    /\ lpc' = [lpc EXCEPT !["mouse"] = "idle"]
    /\ lloc' = [lloc EXCEPT !["mouse"] = NoLocals]
    /\ hist' = Returned(hist, lloc["mouse"].src, result)

\* An exception raised inside the callback ends the listener thread.
Crash ==
    /\ lpc' = [lpc EXCEPT !["mouse"] = "crashed"]
    /\ lloc' = [lloc EXCEPT !["mouse"] = NoLocals]
    /\ hist' = Returned(hist, lloc["mouse"].src, "error")

Goto(l, pc) ==
    /\ lpc' = [lpc EXCEPT ![l] = pc]
    /\ UNCHANGED <<lloc, hist>>

\* on_move, line 162, left operand: self.last_auto_move_time as a boolean.
OnMoveTimeSet ==
    /\ lpc["mouse"] = "mv_t1"
    /\ IF Truthy(last_auto_move_time)
       THEN Goto("mouse", "mv_t2")
       ELSE Goto("mouse", "mv_lock")
    /\ UNCHANGED <<now, shared, lock, cursor, pendingMove, pendingScroll,
                   mon, main_pc, drv, events>>

\* The echo window of line 162: less than 1.0 s since the synthetic move.
Recent(t, lamt) == t - lamt < EchoWindow

\* on_move, line 162, right operand: the field is read again and subtracted.
OnMoveRecent ==
    /\ lpc["mouse"] = "mv_t2"
    /\ IF last_auto_move_time = None
       THEN Crash
       ELSE IF Recent(lloc["mouse"].t, Val(last_auto_move_time))
            THEN Goto("mouse", "mv_p1")
            ELSE Goto("mouse", "mv_lock")
    /\ UNCHANGED <<now, shared, lock, cursor, pendingMove, pendingScroll,
                   mon, main_pc, drv, events>>

\* on_move, line 163: self.last_auto_position as a boolean.
OnMovePosSet ==
    /\ lpc["mouse"] = "mv_p1"
    /\ IF last_auto_position # None
       THEN Goto("mouse", "mv_p2")
       ELSE Goto("mouse", "mv_lock")
    /\ UNCHANGED <<now, shared, lock, cursor, pendingMove, pendingScroll,
                   mon, main_pc, drv, events>>

\* on_move, line 165: dx = x - self.last_auto_position[0].
OnMoveDx ==
    /\ lpc["mouse"] = "mv_p2"
    /\ IF last_auto_position = None
       THEN Crash
       ELSE /\ lpc' = [lpc EXCEPT !["mouse"] = "mv_p3"]
            /\ lloc' = [lloc EXCEPT !["mouse"].dx =
                           lloc["mouse"].pos[1] - last_auto_position[1]]
            /\ hist' = hist
    /\ UNCHANGED <<now, shared, lock, cursor, pendingMove, pendingScroll,
                   mon, main_pc, drv, events>>

\* Mutants of Near: the radius not squared; the boundary included.
NearLinear(distance_sq) == distance_sq < 10

NearInclusive(distance_sq) == distance_sq <= EchoRadiusSq

\* Line 169: distance_sq < 100.
Near(distance_sq) == distance_sq < EchoRadiusSq

\* on_move, lines 166-170: dy, distance_sq and the echo test.
OnMoveNear ==
    /\ lpc["mouse"] = "mv_p3"
    /\ IF last_auto_position = None
       THEN Crash
       ELSE LET dx == lloc["mouse"].dx
                dy == lloc["mouse"].pos[2] - last_auto_position[2]
            IN  IF Near(dx * dx + dy * dy)
                THEN Discard("near")
                ELSE Goto("mouse", "mv_lock")
    /\ UNCHANGED <<now, shared, lock, cursor, pendingMove, pendingScroll,
                   mon, main_pc, drv, events>>

\* on_move, lines 173-176: take the lock, test the flag again.
OnMoveLock ==
    /\ lpc["mouse"] = "mv_lock"
    /\ lock = "free"
    /\ IF is_auto_move_in_progress
       THEN /\ Discard("in_progress")
            /\ lock' = lock
       ELSE /\ Goto("mouse", "mv_write")
            /\ lock' = "mouse"
    /\ UNCHANGED <<now, shared, cursor, pendingMove, pendingScroll,
                   mon, main_pc, drv, events>>

\* Mutant of OnMoveWrite: last_activity_time is not written.
OnMoveWriteNoTime ==
    /\ lpc["mouse"] = "mv_write"
    /\ last_position' = lloc["mouse"].pos
    /\ is_auto_moving' = FALSE
    /\ lock' = "free"
    /\ lpc' = [lpc EXCEPT !["mouse"] = "idle"]
    /\ lloc' = [lloc EXCEPT !["mouse"] = NoLocals]
    /\ hist' = Returned(hist, lloc["mouse"].src,
                        IF is_auto_moving THEN "move_cancel" ELSE "move_genuine")
    /\ UNCHANGED <<now, running, is_auto_move_in_progress, last_activity_time,
                   last_auto_position, last_auto_move_time, auto_move_thread,
                   cursor, pendingMove, pendingScroll, mon, main_pc, drv,
                   events>>

\* on_move, lines 179-182: the writes of a real manual movement.
OnMoveWrite ==
    /\ lpc["mouse"] = "mv_write"
    /\ last_position' = lloc["mouse"].pos
    /\ last_activity_time' = lloc["mouse"].t
    /\ is_auto_moving' = FALSE
    /\ lock' = "free"
    /\ lpc' = [lpc EXCEPT !["mouse"] = "idle"]
    /\ lloc' = [lloc EXCEPT !["mouse"] = NoLocals]
    /\ hist' = Returned(hist, lloc["mouse"].src,
                        IF is_auto_moving THEN "move_cancel" ELSE "move_genuine")
    /\ UNCHANGED <<now, running, is_auto_move_in_progress, last_auto_position,
                   last_auto_move_time, auto_move_thread, cursor, pendingMove,
                   pendingScroll, mon, main_pc, drv, events>>

\* on_activity, line 147, entered from on_click (a press), on_scroll or
\* on_key_press: current_time = time.time().
ActivityEvents(l) ==
    (IF events < MaxEvents
     THEN IF l = "kbd"
          THEN {[kind |-> "key", src |-> "human"]}
          ELSE {[kind |-> k, src |-> "human"] : k \in {"click", "scroll"}}
     ELSE {})
    \cup (IF pendingScroll /\ l = "mouse"
          THEN {[kind |-> "scroll", src |-> "echo"]} ELSE {})

OnActivityTime(l) ==
    /\ lpc[l] = "idle"
    /\ main_pc # "stopped"
    /\ \E e \in ActivityEvents(l) :
         /\ pendingScroll' = (pendingScroll /\ e.src # "echo")
         /\ events' = IF e.src = "human" THEN events + 1 ELSE events
         /\ lloc' = [lloc EXCEPT ![l] =
                [NoLocals EXCEPT !.t = now, !.src = e.src, !.kind = e.kind]]
         /\ hist' = Delivered(hist, e.kind, e.src)
    /\ lpc' = [lpc EXCEPT ![l] = "act_lock"]
    /\ UNCHANGED <<now, shared, lock, cursor, pendingMove, mon, main_pc, drv>>

\* Mutant of OnActivityWrite: an event that arrives during a synthetic move
\* is taken for its echo and does not cancel.
OnActivityWriteUnlessMoving(l) ==
    /\ lpc[l] = "act_lock"
    /\ lock = "free"
    /\ last_activity_time' = lloc[l].t
    /\ is_auto_moving' = (is_auto_moving /\ is_auto_move_in_progress)
    /\ lpc' = [lpc EXCEPT ![l] = "idle"]
    /\ lloc' = [lloc EXCEPT ![l] = NoLocals]
    /\ hist' = Returned(hist, lloc[l].src,
                        IF is_auto_moving THEN "act_cancel" ELSE "act_genuine")
    /\ UNCHANGED <<now, running, is_auto_move_in_progress, last_position,
                   last_auto_position, last_auto_move_time, auto_move_thread,
                   lock, cursor, pendingMove, pendingScroll, mon, main_pc, drv,
                   events>>

\* on_activity, lines 148-151: the writes, under the lock.
OnActivityWrite(l) ==
    /\ lpc[l] = "act_lock"
    /\ lock = "free"
    /\ last_activity_time' = lloc[l].t
    /\ is_auto_moving' = FALSE
    /\ lpc' = [lpc EXCEPT ![l] = "idle"]
    /\ lloc' = [lloc EXCEPT ![l] = NoLocals]
    /\ hist' = Returned(hist, lloc[l].src,
                        IF is_auto_moving THEN "act_cancel" ELSE "act_genuine")
    /\ UNCHANGED <<now, running, is_auto_move_in_progress, last_position,
                   last_auto_position, last_auto_move_time, auto_move_thread,
                   lock, cursor, pendingMove, pendingScroll, mon, main_pc, drv,
                   events>>

\* Mutant of OnClickRelease: 'if pressed' is missing, the release is
\* tracked like a press.
OnClickReleaseTracked ==
    /\ lpc["mouse"] = "idle"
    /\ main_pc # "stopped"
    /\ lock = "free"
    /\ events < MaxEvents
    /\ events' = events + 1
    /\ last_activity_time' = now
    /\ is_auto_moving' = FALSE
    /\ UNCHANGED <<lpc, lloc>>
    /\ hist' = Returned(hist, "human", "ignored")
    /\ UNCHANGED <<now, running, is_auto_move_in_progress, last_position,
                   last_auto_position, last_auto_move_time, auto_move_thread,
                   lock, cursor, pendingMove, pendingScroll, mon, main_pc, drv>>

\* on_click, lines 186-187, with pressed false: nothing is called.
OnClickRelease ==
    /\ lpc["mouse"] = "idle"
    /\ main_pc # "stopped"
    /\ events < MaxEvents
    /\ events' = events + 1
    /\ UNCHANGED <<lpc, lloc>>
    /\ hist' = Returned(hist, "human", "ignored")
    /\ UNCHANGED <<now, shared, lock, cursor, pendingMove, pendingScroll, mon,
                   main_pc, drv>>

Listener ==
    \/ OnMoveFlag
    \/ OnMoveTimeSet
    \/ OnMoveRecent
    \/ OnMovePosSet
    \/ OnMoveDx
    \/ OnMoveNear
    \/ OnMoveLock
    \/ OnMoveWrite
    \/ OnClickRelease
    \/ \E l \in Listeners : OnActivityTime(l) \/ OnActivityWrite(l)

\* ------------------------------------------- start / stop of simulation
\* Mutant of NeedSpawn: a thread is created at every start.
NeedSpawnAlways == TRUE

\* Line 473: a thread is created unless the recorded one is still alive.
NeedSpawn == auto_move_thread = None \/ ~Alive(Val(auto_move_thread))

FreeDriver == CHOOSE d \in DriverIds :
                 ~Alive(d) /\ \A e \in DriverIds : ~Alive(e) => d <= e

\* start_auto_moving, lines 466-475, one critical section.
StartAutoMoving ==
    /\ lock = "free"
    /\ IF ~is_auto_moving
       THEN /\ is_auto_moving' = TRUE
            /\ last_auto_position' = None
            /\ last_auto_move_time' = None
            /\ hist' = [hist EXCEPT !.simSince = TRUE, !.injAfterCancel = 0]
            /\ IF NeedSpawn
               THEN /\ \E d \in DriverIds : ~Alive(d)
                    /\ auto_move_thread' = Some(FreeDriver)
                    /\ drv' = [drv EXCEPT ![FreeDriver].pc = "init"]
               ELSE UNCHANGED <<auto_move_thread, drv>>
       ELSE UNCHANGED <<is_auto_moving, last_auto_position,
                        last_auto_move_time, auto_move_thread, drv, hist>>
    /\ UNCHANGED <<running, is_auto_move_in_progress, last_activity_time,
                   last_position>>

\* stop_auto_moving, lines 479-484, one critical section.
StopAutoMoving ==
    /\ lock = "free"
    /\ IF is_auto_moving
       THEN /\ is_auto_moving' = FALSE
            /\ is_auto_move_in_progress' = FALSE
            /\ last_auto_position' = None
            /\ last_auto_move_time' = None
       ELSE UNCHANGED <<is_auto_moving, is_auto_move_in_progress,
                        last_auto_position, last_auto_move_time>>
    /\ UNCHANGED <<last_activity_time, last_position, auto_move_thread>>

\* ----------------------------------------------------------- monitor_loop
\* time.sleep(self.check_interval), line 500.
MonSleep == [pc |-> "sleep", idle |-> 0, wake |-> now + check_interval]

\* Lines 488-489: the loop test and idle_time, once the sleep is over.
MonPoll ==
    /\ \/ mon.pc = "loop"
       \/ mon.pc = "sleep" /\ now >= mon.wake
    /\ mon' = IF running
              THEN [pc |-> "decide", idle |-> now - last_activity_time,
                    wake |-> 0]
              ELSE [pc |-> "done", idle |-> 0, wake |-> 0]
    /\ UNCHANGED <<now, shared, lock, cursor, pendingMove, pendingScroll, lpc,
                   lloc, main_pc, drv, events, hist>>

\* Mutant of IsIdle: the threshold itself does not count as idle.
IsIdleStrict(idle_time) == idle_time > idle_threshold

\* Line 492: idle_time >= self.idle_threshold.
IsIdle(idle_time) == idle_time >= idle_threshold

\* Lines 492-497: the lock-free tests that choose start or stop.
MonDecide ==
    /\ mon.pc = "decide"
    /\ mon' = IF IsIdle(mon.idle)
              THEN IF ~is_auto_moving
                   THEN [mon EXCEPT !.pc = "start"] ELSE MonSleep
              ELSE IF is_auto_moving
                   THEN [mon EXCEPT !.pc = "stop"] ELSE MonSleep
    /\ UNCHANGED <<now, shared, lock, cursor, pendingMove, pendingScroll, lpc,
                   lloc, main_pc, drv, events, hist>>

\* Lines 494 and 497: the call the tests chose, then the sleep of line 500.
\* (The stop branch is never taken: is_auto_moving is set only by this
\* thread, at a poll, and every later write of last_activity_time clears it,
\* so at the next polls idle_time is check_interval or more.)
MonCall ==
    /\ mon.pc \in {"start", "stop"}
    /\ IF mon.pc = "start"
       THEN StartAutoMoving
       ELSE StopAutoMoving /\ UNCHANGED <<running, drv, hist>>
    /\ mon' = MonSleep
    /\ UNCHANGED <<now, lock, cursor, pendingMove, pendingScroll, lpc, lloc,
                   main_pc, events>>

Monitor == MonPoll \/ MonDecide \/ MonCall

\* ------------------------------------------------------- main thread, stop
\* Line 532, on KeyboardInterrupt: self.running = False.
MainInterrupt ==
    /\ main_pc = "wait"
    /\ events < MaxEvents
    /\ events' = events + 1
    /\ running' = FALSE
    /\ main_pc' = "stopping"
    /\ UNCHANGED <<now, is_auto_moving, is_auto_move_in_progress,
                   last_activity_time, last_position, last_auto_position,
                   last_auto_move_time, auto_move_thread, lock, cursor,
                   pendingMove, pendingScroll, lpc, lloc, mon, drv, hist>>

\* Line 533: self.stop_auto_moving().
MainStop ==
    /\ main_pc = "stopping"
    /\ StopAutoMoving
    /\ main_pc' = "stopped"
    /\ UNCHANGED <<now, running, lock, cursor, pendingMove, pendingScroll, lpc,
                   lloc, mon, drv, events, hist>>

Main == MainInterrupt \/ MainStop

\* ---------------------------------------------------------- natural_move
Abs(a) == IF a < 0 THEN -a ELSE a

\* Mutant of StepsFor: the borders of the buckets belong to the bucket below.
StepsForInclusive(distance_sq) ==
    IF distance_sq <= 50 * 50 THEN 8
    ELSE IF distance_sq <= 150 * 150 THEN 12
    ELSE IF distance_sq <= 300 * 300 THEN 18
    ELSE 25

\* Lines 337-344: the number of steps for a squared distance.
StepsFor(distance_sq) ==
    IF distance_sq < 50 * 50 THEN 8
    ELSE IF distance_sq < 150 * 150 THEN 12
    ELSE IF distance_sq < 300 * 300 THEN 18
    ELSE 25

\* Lines 353-355: eased_t = t * t * (3 - 2 t) at t = i / steps, as the
\* numerator of a fraction over steps^3.
Ease(i, steps) == i * i * (3 * steps - 2 * i)

\* Mutant of Portion: prev_t is not subtracted.
PortionNoPrev(i, steps) == Ease(i, steps)

\* Lines 358-359: step_portion = eased_t - prev_t, over steps^3.
Portion(i, steps) == Ease(i, steps) - Ease(i - 1, steps)

\* int(round(a / b)), b > 0: Python rounds a tie to the even neighbour.
RoundDiv(a, b) ==
    LET q == a \div b
        r == a - q * b
    IN  IF 2 * r < b THEN q
        ELSE IF 2 * r > b THEN q + 1
        ELSE IF q % 2 = 0 THEN q ELSE q + 1

\* Line 366: abs(step_dx) < 0.1 and abs(step_dy) < 0.1.
TooSmall(total, i, steps) ==
    /\ 10 * Abs(total[1] * Portion(i, steps)) < steps * steps * steps
    /\ 10 * Abs(total[2] * Portion(i, steps)) < steps * steps * steps

\* Lines 258-259, 362-363: the relative move SendInput is given at step i.
StepDelta(total, i, steps) ==
    <<RoundDiv(total[1] * Portion(i, steps), steps * steps * steps),
      RoundDiv(total[2] * Portion(i, steps), steps * steps * steps)>>

\* An injection may fail (SendInput returns 0, or the API is unavailable).
Outcomes == IF events < MaxEvents THEN {TRUE, FALSE} ELSE {TRUE}

Injected(h) ==
    IF is_auto_moving THEN h
    ELSE [h EXCEPT !.injAfterCancel =
                      IF h.injAfterCancel < 2 THEN h.injAfterCancel + 1 ELSE 2]

\* ------------------------------------------------------- auto_move_mouse
DGoto(d, pc) == drv' = [drv EXCEPT ![d].pc = pc]

\* Lines 395-398: the entry test, under the lock.
DriverInit(d) ==
    /\ drv[d].pc = "init"
    /\ lock = "free"
    /\ DGoto(d, IF is_auto_moving THEN "while" ELSE "exit")
    /\ UNCHANGED <<now, shared, lock, cursor, pendingMove, pendingScroll, lpc,
                   lloc, mon, main_pc, events, hist>>

\* Line 404: while self.is_auto_moving and self.running, at loop entry and
\* after the sleep of line 462.
DriverWhile(d) ==
    /\ \/ drv[d].pc = "while"
       \/ drv[d].pc = "sleep" /\ now >= drv[d].wake
    /\ drv' = [drv EXCEPT ![d] =
                 [DeadDriver EXCEPT !.pc = IF is_auto_moving /\ running
                                           THEN "check" ELSE "exit"]]
    /\ UNCHANGED <<now, shared, lock, cursor, pendingMove, pendingScroll, lpc,
                   lloc, mon, main_pc, events, hist>>

\* Lines 406-408: the second test, under the lock.
DriverCheck(d) ==
    /\ drv[d].pc = "check"
    /\ lock = "free"
    /\ DGoto(d, IF is_auto_moving THEN "choose" ELSE "exit")
    /\ UNCHANGED <<now, shared, lock, cursor, pendingMove, pendingScroll, lpc,
                   lloc, mon, main_pc, events, hist>>

\* Lines 412-434 and 319: choice 'move', the target, and natural_move's
\* first statement, which sets is_auto_move_in_progress without the lock.
EnterMove(d, end) ==
    /\ drv' = [drv EXCEPT ![d].pc = "nm_read", ![d].target = end]
    /\ is_auto_move_in_progress' = TRUE
    /\ UNCHANGED <<now, running, is_auto_moving, last_activity_time,
                   last_position, last_auto_position, last_auto_move_time,
                   auto_move_thread, lock, cursor, pendingMove, pendingScroll,
                   lpc, lloc, mon, main_pc, events, hist>>

DriverMove(d) ==
    /\ drv[d].pc = "choose"
    /\ \E off \in Offsets :
         EnterMove(d, <<cursor[1] + off[1], cursor[2] + off[2]>>)

\* Lines 323-347: the position now, the distance, the step count.
DriverRead(d) ==
    /\ drv[d].pc = "nm_read"
    /\ LET total == <<drv[d].target[1] - cursor[1],
                      drv[d].target[2] - cursor[2]>>
           dsq == DistSq(drv[d].target, cursor)
       IN  drv' = IF dsq < 1
                  THEN [drv EXCEPT ![d].pc = "nm_done"]
                  ELSE [drv EXCEPT ![d].pc = "nm_step", ![d].total = total,
                                   ![d].steps = StepsFor(dsq), ![d].i = 1]
    /\ UNCHANGED <<now, shared, lock, cursor, pendingMove, pendingScroll, lpc,
                   lloc, mon, main_pc, events, hist>>

\* Mutant of DriverStep: the step loop does not test is_auto_moving.
DriverStepNoCancel(d) ==
    /\ drv[d].pc = "nm_step"
    /\ drv' = [drv EXCEPT ![d].pc = IF drv[d].i <= drv[d].steps
                                    THEN "nm_inject" ELSE "nm_done"]
    /\ UNCHANGED <<now, shared, lock, cursor, pendingMove, pendingScroll, lpc,
                   lloc, mon, main_pc, events, hist>>

\* Lines 348-350: the loop test and the cancellation test of a step.
DriverStep(d) ==
    /\ drv[d].pc = "nm_step"
    /\ DGoto(d, IF drv[d].i <= drv[d].steps /\ is_auto_moving
                THEN "nm_inject" ELSE "nm_done")
    /\ UNCHANGED <<now, shared, lock, cursor, pendingMove, pendingScroll, lpc,
                   lloc, mon, main_pc, events, hist>>

\* Mutant of AfterFailure: a failed injection ends the loop.
AfterFailureBreak == "nm_done"

\* Lines 374-376: 'if not success: continue' goes on to the next step.
AfterFailure == "nm_step"

\* Lines 353-384: one step: skipped when too small, else injected with
\* move_mouse_relative; a failed injection is skipped too.
DriverInject(d) ==
    /\ drv[d].pc = "nm_inject"
    /\ LET next == [drv[d] EXCEPT !.pc = "nm_step", !.i = drv[d].i + 1,
                       !.acc = drv[d].acc + Portion(drv[d].i, drv[d].steps)]
       IN  IF TooSmall(drv[d].total, drv[d].i, drv[d].steps)
           THEN /\ drv' = [drv EXCEPT ![d] = next]
                /\ UNCHANGED <<cursor, pendingMove, events, hist>>
           ELSE \E ok \in Outcomes :
                  IF ok
                  THEN LET delta == StepDelta(drv[d].total, drv[d].i,
                                             drv[d].steps)
                           to == <<cursor[1] + delta[1], cursor[2] + delta[2]>>
                       IN  /\ drv' = [drv EXCEPT ![d] =
                                        [next EXCEPT !.sent = drv[d].sent + 1]]
                           /\ cursor' = to
                           /\ pendingMove' = to
                           /\ hist' = Injected(hist)
                           /\ events' = events
                  ELSE /\ drv' = [drv EXCEPT ![d] =
                                        [next EXCEPT !.pc = AfterFailure]]
                       /\ events' = events + 1
                       /\ UNCHANGED <<cursor, pendingMove, hist>>
    /\ UNCHANGED <<now, shared, lock, pendingScroll, lpc, lloc, mon, main_pc>>

\* Mutant of DriverDone: the flag is cleared after the loop instead of in a
\* finally clause, so the early return of line 333 leaves it set.
DriverDoneAfterLoop(d) ==
    /\ drv[d].pc = "nm_done"
    /\ is_auto_move_in_progress' = (is_auto_move_in_progress /\ drv[d].steps = 0)
    /\ drv' = [drv EXCEPT ![d] = [DeadDriver EXCEPT !.pc = "bk_read"]]
    /\ UNCHANGED <<now, running, is_auto_moving, last_activity_time,
                   last_position, last_auto_position, last_auto_move_time,
                   auto_move_thread, lock, cursor, pendingMove, pendingScroll,
                   lpc, lloc, mon, main_pc, events, hist>>

\* Line 390: the finally clause clears the flag.
DriverDone(d) ==
    /\ drv[d].pc = "nm_done"
    /\ is_auto_move_in_progress' = FALSE
    /\ drv' = [drv EXCEPT ![d] = [DeadDriver EXCEPT !.pc = "bk_read"]]
    /\ UNCHANGED <<now, running, is_auto_moving, last_activity_time,
                   last_position, last_auto_position, last_auto_move_time,
                   auto_move_thread, lock, cursor, pendingMove, pendingScroll,
                   lpc, lloc, mon, main_pc, events, hist>>

\* Lines 438-439: final_pos and current_time.
DriverFinal(d) ==
    /\ drv[d].pc = "bk_read"
    /\ drv' = [drv EXCEPT ![d].pc = "bk_write", ![d].final = cursor,
                          ![d].ftime = now]
    /\ UNCHANGED <<now, shared, lock, cursor, pendingMove, pendingScroll, lpc,
                   lloc, mon, main_pc, events, hist>>

\* Lines 440-443: the bookkeeping of the synthetic move, under the lock.
DriverRecord(d) ==
    /\ drv[d].pc = "bk_write"
    /\ lock = "free"
    /\ last_auto_position' = drv[d].final
    /\ last_auto_move_time' = Some(drv[d].ftime)
    /\ last_position' = drv[d].final
    /\ drv' = [drv EXCEPT ![d] = [DeadDriver EXCEPT !.pc = "tail"]]
    /\ UNCHANGED <<now, running, is_auto_moving, is_auto_move_in_progress,
                   last_activity_time, auto_move_thread, lock, cursor,
                   pendingMove, pendingScroll, lpc, lloc, mon, main_pc, events,
                   hist>>

\* Lines 446-455: choice 'scroll': one scroll_mouse injection.
DriverScroll(d) ==
    /\ drv[d].pc = "choose"
    /\ DGoto(d, "tail")
    /\ \E ok \in Outcomes :
         IF ok
         THEN /\ pendingScroll' = TRUE
              /\ hist' = Injected(hist)
              /\ events' = events
         ELSE /\ events' = events + 1
              /\ UNCHANGED <<pendingScroll, hist>>
    /\ UNCHANGED <<now, shared, lock, cursor, pendingMove, lpc, lloc, mon,
                   main_pc>>

\* Lines 461-462: sleep auto_move_interval when still simulating.
DriverTail(d) ==
    /\ drv[d].pc = "tail"
    /\ drv' = IF is_auto_moving
              THEN [drv EXCEPT ![d].pc = "sleep",
                               ![d].wake = now + auto_move_interval]
              ELSE [drv EXCEPT ![d].pc = "while"]
    /\ UNCHANGED <<now, shared, lock, cursor, pendingMove, pendingScroll, lpc,
                   lloc, mon, main_pc, events, hist>>

\* The thread function has returned; is_alive() turns false.
DriverExit(d) ==
    /\ drv[d].pc = "exit"
    /\ DGoto(d, "dead")
    /\ UNCHANGED <<now, shared, lock, cursor, pendingMove, pendingScroll, lpc,
                   lloc, mon, main_pc, events, hist>>

Driver ==
    \E d \in DriverIds :
        \/ DriverInit(d)
        \/ DriverWhile(d)
        \/ DriverCheck(d)
        \/ DriverMove(d)
        \/ DriverRead(d)
        \/ DriverStep(d)
        \/ DriverInject(d)
        \/ DriverDone(d)
        \/ DriverFinal(d)
        \/ DriverRecord(d)
        \/ DriverScroll(d)
        \/ DriverTail(d)
        \/ DriverExit(d)

\* ------------------------------------------------------------------ time
\* Code between two sleeps runs in far less than a second, and the OS
\* reports an injected event at once: the clock moves on only when every
\* thread is asleep, waiting for an event, or finished.  When stop() has
\* returned, main() returns and the process ends with its daemon threads:
\* no further event is delivered and no further second passes.
ListenerAtRest(l) == lpc[l] \in {"idle", "crashed"}

AtRest ==
    /\ \A l \in Listeners : ListenerAtRest(l)
    /\ lpc["mouse"] = "idle" => pendingMove = None /\ ~pendingScroll
    /\ mon.pc = "done" \/ (mon.pc = "sleep" /\ now < mon.wake)
    /\ main_pc = "wait"
    /\ \A d \in DriverIds :
         drv[d].pc = "dead" \/ (drv[d].pc = "sleep" /\ now < drv[d].wake)

Tick ==
    /\ now < MaxTime
    /\ AtRest
    /\ now' = now + 1
    /\ hist' = [hist EXCEPT !.last = NoLast, !.gapped =
                   hist.gapped \/ now + 1 - hist.lastGenuine >= idle_threshold]
    /\ UNCHANGED <<shared, lock, cursor, pendingMove, pendingScroll, lpc, lloc,
                   mon, main_pc, drv, events>>

Next == Listener \/ Monitor \/ Main \/ Driver \/ Tick

Spec == Init /\ [][Next]_vars

\* ------------------------------------------------- callbacks that are late
\* A callback that has read the clock (lines 147, 159) may be preempted, or
\* wait for self.lock, before it writes: the clock moves on while a callback
\* is between its first and its last statement.  A callback is late by one
\* tick of the clock at most.
LateTick ==
    /\ now < MaxTime
    /\ \E l \in Listeners : ~ListenerAtRest(l)
    /\ \A l \in Listeners : ~ListenerAtRest(l) => lloc[l].t = now
    /\ now' = now + 1
    /\ hist' = [hist EXCEPT !.last = NoLast, !.gapped =
                   hist.gapped \/ now + 1 - hist.lastGenuine >= idle_threshold]
    /\ UNCHANGED <<shared, lock, cursor, pendingMove, pendingScroll, lpc, lloc,
                   mon, main_pc, drv, events>>

LateNext == Next \/ LateTick

LateSpec == Init /\ [][LateNext]_vars

\* ------------------------------------------------ natural_move on its own
\* The end points natural_move is called with, the cursor being at the
\* origin: at the cursor, and in every distance bucket and on its borders
\* (49, 50, 149, 150, 200, 299, 300 and 500 pixels away).
MoveTargets == {<<0, 0>>, <<30, 0>>, <<0, 49>>, <<50, 0>>, <<149, 0>>,
                <<90, 120>>, <<200, 0>>, <<0, 299>>, <<180, 240>>,
                <<400, 300>>}

\* The simulation has started in second 6 and the driver, past its tests of
\* lines 404-408, has chosen 'move'.
MoveInit ==
    /\ now = idle_threshold + 1
    /\ running = TRUE
    /\ is_auto_moving = TRUE
    /\ is_auto_move_in_progress = FALSE
    /\ last_activity_time = 1
    /\ last_position = None
    /\ last_auto_position = None
    /\ last_auto_move_time = None
    /\ auto_move_thread = Some(1)
    /\ lock = "free"
    /\ cursor = <<0, 0>>
    /\ pendingMove = None
    /\ pendingScroll = FALSE
    /\ lpc = [l \in Listeners |-> "idle"]
    /\ lloc = [l \in Listeners |-> NoLocals]
    /\ mon = MonSleep
    /\ main_pc = "wait"
    /\ drv = [d \in DriverIds |->
                IF d = 1 THEN [DeadDriver EXCEPT !.pc = "choose"]
                         ELSE DeadDriver]
    /\ events = 0
    /\ hist = [NoHist EXCEPT !.simSince = TRUE, !.gapped = TRUE]

\* Line 434: self.natural_move(current_x, current_y, new_x, new_y).
MoveCall ==
    /\ drv[1].pc = "choose"
    /\ \E end \in MoveTargets : EnterMove(1, end)

MoveNext ==
    \/ MoveCall
    \/ DriverRead(1)
    \/ DriverStep(1)
    \/ DriverInject(1)
    \/ DriverDone(1)

MoveSpec == MoveInit /\ [][MoveNext]_vars

\* ---------------------------------------------------------------- claims
MouseSteps == lpc'["mouse"] # lpc["mouse"]

\* C1: the callback of every click (a button press), scroll or key press
\* returns with is_auto_moving false and last_activity_time equal to the
\* current time, whatever is_auto_move_in_progress and the synthetic
\* endpoint are.
C1_ActivityCancels ==
    [][\A l \in Listeners :
          (/\ lloc[l].kind \in {"click", "scroll", "key"}
           /\ lpc[l] # "idle"
           /\ lpc'[l] = "idle")
          => /\ is_auto_moving' = FALSE
             /\ last_activity_time' = lloc[l].t
             /\ lloc[l].t = now]_vars

\* C1 witness: a person's click, scroll or key press has cancelled the
\* simulation in the middle of a synthetic move, with an endpoint recorded.
C1_Witness ==
    /\ hist.last = [src |-> "human", result |-> "act_cancel"]
    /\ is_auto_move_in_progress
    /\ \E d \in DriverIds : drv[d].pc = "nm_inject" /\ drv[d].i > 1
    /\ last_auto_position # None
    /\ ~is_auto_moving
    /\ last_activity_time = now

\* C2: a move that on_move finds less than 1.0 s after last_auto_move_time
\* and less than 10 px from last_auto_position goes through the tests of
\* lines 162-169 and returns at the echo test, and no step of the call up
\* to there writes is_auto_moving, last_activity_time or last_position.
C2_NearEchoDiscarded ==
    [][MouseSteps /\ lpc["mouse"] \in {"mv_t1", "mv_t2", "mv_p1", "mv_p2", "mv_p3"}
       => /\ is_auto_moving' = is_auto_moving
          /\ last_activity_time' = last_activity_time
          /\ last_position' = last_position
          /\ (lpc["mouse"] = "mv_t1" /\ Truthy(last_auto_move_time))
             => lpc'["mouse"] = "mv_t2"
          /\ (lpc["mouse"] \in {"mv_p1", "mv_p2"} /\ last_auto_position # None)
             => lpc'["mouse"] = (IF lpc["mouse"] = "mv_p1" THEN "mv_p2"
                                                           ELSE "mv_p3")
          /\ (/\ lpc["mouse"] = "mv_t2"
              /\ last_auto_move_time # None
              /\ lloc["mouse"].t - Val(last_auto_move_time) < EchoWindow
              /\ last_auto_position # None)
             => lpc'["mouse"] = "mv_p1"
          /\ (/\ lpc["mouse"] = "mv_p3"
              /\ last_auto_position # None
              /\ lloc["mouse"].dx * lloc["mouse"].dx
                   + (lloc["mouse"].pos[2] - last_auto_position[2])
                     * (lloc["mouse"].pos[2] - last_auto_position[2])
                 < EchoRadiusSq)
             => lpc'["mouse"] = "idle"]_vars

\* C2 witness: a person's move 5 px from the synthetic endpoint, in the same
\* second, has been discarded and the simulation still runs.
C2_Witness ==
    /\ hist.last = [src |-> "human", result |-> "near"]
    /\ is_auto_moving
    /\ last_auto_position # None
    /\ DistSq(cursor, last_auto_position) = 25
    /\ last_auto_move_time = Some(now)

\* C3: the report of a scroll the driver injected leaves is_auto_moving true
\* and last_activity_time as it was.
C3_InjectedScrollNoFeedback ==
    [][(/\ lpc["mouse"] = "act_lock"
        /\ lloc["mouse"].src = "echo"
        /\ lpc'["mouse"] = "idle")
       => /\ is_auto_moving' = is_auto_moving
          /\ last_activity_time' = last_activity_time]_vars

\* C4: is_auto_moving turns from false to true only when
\* now - last_activity_time >= idle_threshold at that moment.
C4_StartOnlyWhenIdle ==
    [][~is_auto_moving /\ is_auto_moving'
       => now - last_activity_time >= idle_threshold]_vars

\* C5: while the monitor runs, once idle_threshold + check_interval seconds
\* have passed since the last event of a person, is_auto_moving has been
\* true at some moment since that event.
C5_SimulatingWithinOnePoll ==
    running /\ now - hist.lastGenuine >= idle_threshold + check_interval
    => hist.simSince

\* C5 witness: a person moved the mouse one second after a poll, ten
\* seconds have passed, and the simulation is running.
C5_Witness ==
    /\ running
    /\ hist.moved
    /\ hist.lastGenuine = 2
    /\ now - hist.lastGenuine >= idle_threshold + check_interval
    /\ hist.simSince
    /\ is_auto_moving

\* C6: at most one driver thread is alive.
C6_OneDriver == Cardinality({d \in DriverIds : Alive(d)}) <= 1

\* C6 witness: with no event of a person, the simulation started in second
\* 6; a second start, after a cancellation, has created a thread because
\* the first one had ended.
C6_Witness ==
    /\ events = 0
    /\ now >= 2 * idle_threshold + 1
    /\ is_auto_moving
    /\ auto_move_thread # None
    /\ drv[Val(auto_move_thread)].pc = "init"

\* C7: while the monitor runs and is_auto_moving is true, a driver thread is
\* alive (start_auto_moving creates one only when is_auto_moving is false,
\* so with none alive none is created while is_auto_moving stays true).
C7_SimulatingHasDriver ==
    running /\ is_auto_moving => \E d \in DriverIds : Alive(d)

\* C8: while is_auto_moving is false, the driver has injected at most one
\* event since it became false, and after that event it is on its way out
\* of the loop: it is not at the start of an action, not about to inject
\* and not asleep.
C8_OneStepLatency ==
    ~is_auto_moving
    => /\ hist.injAfterCancel <= 1
       /\ hist.injAfterCancel = 1
          => \A d \in DriverIds :
                drv[d].pc \in {"nm_step", "nm_done", "bk_read", "bk_write",
                               "tail", "while", "exit", "dead"}

\* C8 witness: the simulation was cancelled, the driver injected one more
\* event, and its thread has ended.
C8_Witness ==
    /\ ~is_auto_moving
    /\ hist.injAfterCancel = 1
    /\ \A d \in DriverIds : ~Alive(d)

\* C9: a move that on_move finds 10 px or more from last_auto_position goes
\* on to the lock; with no synthetic move in progress there it writes
\* last_position, last_activity_time and is_auto_moving = false.
C9_FarMoveIsGenuine ==
    [][MouseSteps
       => /\ (/\ lpc["mouse"] = "mv_p3"
              /\ last_auto_position # None
              /\ lloc["mouse"].dx * lloc["mouse"].dx
                   + (lloc["mouse"].pos[2] - last_auto_position[2])
                     * (lloc["mouse"].pos[2] - last_auto_position[2])
                 >= EchoRadiusSq)
             => lpc'["mouse"] = "mv_lock"
          /\ (lpc["mouse"] = "mv_lock" /\ ~is_auto_move_in_progress)
             => lpc'["mouse"] = "mv_write"
          /\ lpc["mouse"] = "mv_write"
             => /\ last_position' = lloc["mouse"].pos
                /\ last_activity_time' = lloc["mouse"].t
                /\ is_auto_moving' = FALSE
                /\ lpc'["mouse"] = "idle"]_vars

\* C9 witness: a move exactly 10 px from the synthetic endpoint, in the
\* second of the synthetic move, has been recorded as genuine and has
\* cancelled the simulation.
C9_Witness ==
    /\ hist.last.result = "move_cancel"
    /\ last_auto_position # None
    /\ last_position # None
    /\ DistSq(last_position, last_auto_position) = EchoRadiusSq
    /\ last_auto_move_time = Some(last_activity_time)
    /\ ~is_auto_moving

C11_NoOpWithinOnePixel ==
    [][\A d \in DriverIds :
          drv'[d] # drv[d]
          => /\ (drv[d].pc = "nm_read" /\ DistSq(drv[d].target, cursor) < 1)
                => /\ drv'[d].pc = "nm_done"
                   /\ drv'[d].steps = 0
                   /\ drv'[d].sent = 0
                   /\ cursor' = cursor
             /\ (drv[d].pc = "nm_done" /\ drv[d].steps = 0)
                => /\ drv[d].sent = 0
                   /\ drv'[d].pc = "bk_read"
                   /\ is_auto_move_in_progress' = FALSE
                   /\ cursor' = cursor
                   /\ pendingMove' = pendingMove]_vars

\* C11 witness: natural_move, called with the cursor's own position as its
\* end point, has returned: nothing was injected and the flag is false.
C11_Witness ==
    /\ drv[1].pc = "bk_read"
    /\ cursor = <<0, 0>>
    /\ pendingMove = None
    /\ events = 0
    /\ ~is_auto_move_in_progress

\* C12: every step_portion of a trajectory is non-negative, and when the
\* loop of natural_move has run through all its 8, 12, 18 or 25 steps the
\* step_portion values add up to exactly 1 (steps^3 over steps^3).
C12_PortionsSumToOne ==
    \A d \in DriverIds :
       /\ drv[d].pc = "nm_inject" => Portion(drv[d].i, drv[d].steps) >= 0
       /\ (drv[d].pc = "nm_done" /\ drv[d].i > drv[d].steps /\ drv[d].steps > 0)
          => /\ drv[d].steps \in {8, 12, 18, 25}
             /\ drv[d].acc = drv[d].steps * drv[d].steps * drv[d].steps

\* C12 witness: a trajectory of 25 steps has run through.
C12_Witness ==
    /\ drv[1].pc = "nm_done"
    /\ drv[1].steps = 25
    /\ drv[1].i = 26
    /\ drv[1].acc = 25 * 25 * 25

\* C13: the step count is 8 below 50 px, 12 below 150 px, 18 below 300 px
\* and 25 from there on, so 18 at 200 px; it does not decrease with the
\* distance; one call injects at most as many events as it has steps, hence
\* at most 25.
C13_StepBuckets ==
    /\ \A d \in DriverIds :
          drv[d].steps > 0
          => LET distance_sq == drv[d].total[1] * drv[d].total[1]
                                + drv[d].total[2] * drv[d].total[2]
             IN  /\ distance_sq < 50 * 50 => drv[d].steps = 8
                 /\ (distance_sq >= 50 * 50 /\ distance_sq < 150 * 150)
                    => drv[d].steps = 12
                 /\ (distance_sq >= 150 * 150 /\ distance_sq < 300 * 300)
                    => drv[d].steps = 18
                 /\ distance_sq >= 300 * 300 => drv[d].steps = 25
                 /\ distance_sq = 200 * 200 => drv[d].steps = 18
                 /\ drv[d].sent <= drv[d].steps
                 /\ drv[d].sent <= 25
    /\ \A a, b \in MoveTargets :
          DistSq(a, <<0, 0>>) <= DistSq(b, <<0, 0>>)
          => StepsFor(DistSq(a, <<0, 0>>)) <= StepsFor(DistSq(b, <<0, 0>>))

\* C13 witness: a move of 200 px has run through its 18 steps, and a move of
\* 500 px would be given 25.
C13_Witness ==
    /\ drv[1].pc = "nm_done"
    /\ drv[1].total = <<200, 0>>
    /\ drv[1].steps = 18
    /\ drv[1].i = 19
    /\ drv[1].sent = 18

\* C14: once stop() has returned, is_auto_moving is false and no event is
\* injected any more.
C14_StoppedStaysStopped ==
    [][main_pc = "stopped"
       => /\ ~is_auto_moving'
          /\ cursor' = cursor
          /\ pendingScroll' => pendingScroll]_vars

\* C15: while a driver is inside natural_move, from line 319 to its return,
\* is_auto_move_in_progress is true.
C15_FlagDuringMove ==
    \A d \in DriverIds :
       drv[d].pc \in {"nm_read", "nm_step", "nm_inject", "nm_done"}
       => is_auto_move_in_progress

\* C16: on_move performs the writes of lines 179-182 only while
\* is_auto_move_in_progress is false.
C16_NoGenuineWriteDuringMove ==
    [][(lpc["mouse"] = "mv_write" /\ lpc'["mouse"] = "idle")
       => ~is_auto_move_in_progress]_vars

\* C17: when on_move performs the writes of lines 179-182,
\* is_auto_move_in_progress is false and the event is not both less than
\* 10 px from last_auto_position and less than 1.0 s after
\* last_auto_move_time, as these fields are at that moment.
C17_RevalidatedUnderLock ==
    [][(lpc["mouse"] = "mv_write" /\ lpc'["mouse"] = "idle")
       => /\ ~is_auto_move_in_progress
          /\ ~(/\ last_auto_position # None
               /\ last_auto_move_time # None
               /\ Near(DistSq(lloc["mouse"].pos, last_auto_position))
               /\ Recent(lloc["mouse"].t, Val(last_auto_move_time)))]_vars

\* C18: when a call of stop_auto_moving returns (from stop() or from
\* monitor_loop), is_auto_moving is false and last_auto_position and
\* last_auto_move_time are None.
C18_StopClearsTracking ==
    [][(\/ main_pc = "stopping" /\ main_pc' = "stopped"
        \/ mon.pc = "stop" /\ mon'.pc # "stop")
       => /\ ~is_auto_moving'
          /\ last_auto_position' = None
          /\ last_auto_move_time' = None]_vars

\* C19: a step of the driver in which an injection fails changes neither
\* is_auto_moving nor last_activity_time nor the cursor; inside natural_move
\* the loop goes on to the next step, after a scroll the driver goes on to
\* the end of its iteration; the driver leaves its loop only where it read
\* is_auto_moving or running as false; and natural_move returns with
\* is_auto_move_in_progress false.
C19_FailedInjectionIsLocal ==
    [][\A d \in DriverIds :
          /\ (drv'[d] # drv[d] /\ events' = events + 1)
             => /\ is_auto_moving' = is_auto_moving
                /\ last_activity_time' = last_activity_time
                /\ cursor' = cursor
                /\ drv[d].pc = "nm_inject"
                   => /\ drv'[d].pc = "nm_step"
                      /\ drv'[d].i = drv[d].i + 1
                      /\ drv'[d].sent = drv[d].sent
                /\ drv[d].pc = "choose" => drv'[d].pc = "tail"
          /\ (drv[d].pc # "exit" /\ drv'[d].pc = "exit")
             => ~is_auto_moving \/ ~running
          /\ (drv[d].pc = "nm_done" /\ drv'[d].pc # "nm_done")
             => ~is_auto_move_in_progress']_vars

\* C19 witness: one step of the first synthetic move failed, so the move
\* ended short of its 30 px; the simulation is still on and the driver,
\* five seconds later, is at its next action.
C19_Witness ==
    /\ now >= idle_threshold + 1 + auto_move_interval
    /\ events = 1
    /\ ~hist.moved
    /\ is_auto_moving
    /\ cursor[1] > 0 /\ cursor[1] < 30 /\ cursor[2] = 0
    /\ last_auto_position = cursor
    /\ \E d \in DriverIds : drv[d].pc = "choose"

\* C20: the callback of a button release changes none of is_auto_moving,
\* last_activity_time, last_position, last_auto_position,
\* last_auto_move_time and is_auto_move_in_progress.
C20_ReleaseChangesNothing ==
    [][(/\ events' = events + 1
        /\ hist'.last = [src |-> "human", result |-> "ignored"]
        /\ drv' = drv
        /\ main_pc' = main_pc)
       => /\ is_auto_moving' = is_auto_moving
          /\ last_activity_time' = last_activity_time
          /\ last_position' = last_position
          /\ last_auto_position' = last_auto_position
          /\ last_auto_move_time' = last_auto_move_time
          /\ is_auto_move_in_progress' = is_auto_move_in_progress]_vars

\* C20 witness: the simulation has been on since second 6 and has recorded
\* a synthetic move; a button was released five or more seconds later, and
\* the simulation is still on with its fields as they were.
C20_Witness ==
    /\ hist.last = [src |-> "human", result |-> "ignored"]
    /\ now >= idle_threshold + 1 + auto_move_interval
    /\ is_auto_moving
    /\ last_auto_position # None
    /\ last_activity_time = 1

\* C21: on_move never ends with an exception: it does not reach the
\* subtraction of line 162 or the indexing of lines 165-166 with the field
\* being None.
C21_OnMoveNeverFails ==
    /\ lpc["mouse"] # "crashed"
    /\ hist.last.result # "error"

\* C22: no step makes last_activity_time smaller.
C22_ActivityTimeMonotonic ==
    [][last_activity_time' >= last_activity_time]_vars

====
